---------------------------- MODULE Spec2Model ----------------------------
(***************************************************************************)
(* The request handlers of routes/booksRoute and routes/authorsRoute       *)
(* (src/unnamed/part_000) over the Books and Authors collections.          *)
(*                                                                         *)
(* A handler suspends at every await, so a handler with two persistence    *)
(* calls (Create: findOne then save; Update with the unique field in the   *)
(* payload: findOne then findByIdAndUpdate) is two steps: the first        *)
(* validates and runs the duplicate pre-check, the second performs the     *)
(* write.  Requests between the two steps are held in `pending`.  A        *)
(* handler with one persistence call is one step: its validation reads no  *)
(* shared state.  Every persistence call is atomic.                        *)
(*                                                                         *)
(* The handlers run on one event loop: a handler step runs to its next     *)
(* await (or to its response) before another starts.  `res` records what   *)
(* the step that has just run did, until control is back in the loop       *)
(* (Yield).                                                                *)
(*                                                                         *)
(* The two routers are separate Router instances over separate collections *)
(* and share no state; a behaviour exercises one of them (`router`).       *)
(*                                                                         *)
(* models/Book and models/Author are not among the sources: identifiers    *)
(* are generated at creation and never reused, documents hold the fields   *)
(* of the sanitized payload, and each collection has a unique index on     *)
(* isbn / fullname (DuplicateKey), as the specification describes them.    *)
(***************************************************************************)
EXTENDS Integers, Sequences, FiniteSets, Bags, TLC

\* number of identifiers the persistence service generates in a behaviour
MaxId == 2
\* number of requests that may be suspended between pre-check and write
MaxPending == 2

VARIABLES router, books, authors, nextId, pending, res, deleted, created

vars == <<router, books, authors, nextId, pending, res, deleted, created>>

----------------------------------------------------------------------------
(* Strings are sequences of one-character strings.                         *)

Digits == {"0", "1", "2", "3", "4", "5", "6", "7", "8", "9"}
HexDigits == Digits \cup {"a", "b", "c", "d", "e", "f"}

RECURSIVE TrimLeft(_)
TrimLeft(s) == IF s # <<>> /\ Head(s) = " " THEN TrimLeft(Tail(s)) ELSE s

RECURSIVE TrimRight(_)
TrimRight(s) ==
  IF s # <<>> /\ s[Len(s)] = " " THEN TrimRight(SubSeq(s, 1, Len(s) - 1)) ELSE s

\* express-validator .trim()
Trim(s) == TrimRight(TrimLeft(s))

\* express-validator .isLength({min, max})
IsLength(s, min, max) == Len(s) >= min /\ Len(s) <= max

\* .matches(/^[0-9]{10}$|^[0-9]{13}$/)
IsbnMatches(s) == Len(s) \in {10, 13} /\ \A i \in 1..Len(s) : s[i] \in Digits

\* .isInt({min, max})
IsInt(v, min, max) == v \in Int /\ v >= min /\ v <= max

\* new Date().getFullYear()
CurrentYear == 2026

Genres == {"Mystery", "Fantasy", "Biography", "History", "Self-Help"}
Genders == {"Male", "Female", "Other"}

\* 24 hexadecimal characters
IsMongoIdLengthOnly(s) == Len(s) = 24
IsMongoId(s) == Len(s) = 24 /\ \A i \in 1..Len(s) : s[i] \in HexDigits

Has(body, f) == f \in DOMAIN body

\* the n-th identifier the persistence service generates
HexOf(n) == CASE n = 1 -> "1" [] n = 2 -> "2" [] n = 3 -> "3" [] n = 4 -> "4"
              [] OTHER -> "f"
ObjectId(n) == [i \in 1..24 |-> HexOf(n)]


----------------------------------------------------------------------------
(* Validation chains.  Each yields the set of fields with a failing check; *)
(* a chain runs its sanitizers (trim) before its validators, and a chain   *)
(* marked optional() is skipped when the field is undefined.               *)

Str(body, f) == IF Has(body, f) THEN Trim(body[f]) ELSE <<>>

\* .isBoolean() on the value's string form
IsBoolean(v) == v \in {"true", "false", "1", "0"}

IdErrors(id) == IF IsMongoId(id) THEN {} ELSE {"id"}

BookCreateErrors(body) ==
  {f \in {"title"} : ~IsLength(Str(body, "title"), 1, 200)}
  \cup {f \in {"author"} : ~IsLength(Str(body, "author"), 1, 100)}
  \cup {f \in {"isbn"} : ~IsbnMatches(Str(body, "isbn"))}
  \cup {f \in {"genre"} : ~(Has(body, "genre") /\ body.genre \in Genres)}
  \cup {f \in {"publicationYear"} :
          ~(Has(body, "publicationYear")
            /\ IsInt(body.publicationYear, 1000, CurrentYear))}
  \cup {f \in {"pages"} : ~(Has(body, "pages") /\ IsInt(body.pages, 1, 10000))}
  \cup {f \in {"description"} :
          Has(body, "description") /\ ~IsLength(Str(body, "description"), 0, 1000)}
  \cup {f \in {"available"} : Has(body, "available") /\ ~IsBoolean(body.available)}

BookUpdateErrors(body) ==
  {f \in {"title"} : Has(body, "title") /\ ~IsLength(Str(body, "title"), 1, 200)}
  \cup {f \in {"author"} :
          Has(body, "author") /\ ~IsLength(Str(body, "author"), 1, 100)}
  \cup {f \in {"isbn"} : Has(body, "isbn") /\ ~IsbnMatches(Str(body, "isbn"))}
  \cup {f \in {"genre"} : Has(body, "genre") /\ body.genre \notin Genres}
  \cup {f \in {"publicationYear"} :
          Has(body, "publicationYear")
          /\ ~IsInt(body.publicationYear, 1000, CurrentYear)}
  \cup {f \in {"pages"} : Has(body, "pages") /\ ~IsInt(body.pages, 1, 10000)}
  \cup {f \in {"description"} :
          Has(body, "description") /\ ~IsLength(Str(body, "description"), 0, 1000)}
  \cup {f \in {"available"} : Has(body, "available") /\ ~IsBoolean(body.available)}

\* req.body after the chains' sanitizers have run
SanitizeBookNoTrim(body) == body
SanitizeBook(body) ==
  [f \in DOMAIN body |->
     IF f \in {"title", "author", "isbn", "description"} THEN Trim(body[f])
     ELSE body[f]]

AuthorCreateErrors(body) ==
  {f \in {"fullname"} : ~IsLength(Str(body, "fullname"), 1, 50)}
  \cup {f \in {"country"} : ~IsLength(Str(body, "country"), 1, 50)}
  \cup {f \in {"gender"} : ~(Has(body, "gender") /\ body.gender \in Genders)}
  \cup {f \in {"birthdate"} : ~(Has(body, "birthdate") /\ body.birthdate # <<>>)}

AuthorUpdateErrors(body) ==
  {f \in {"fullname"} :
     Has(body, "fullname") /\ ~IsLength(Str(body, "fullname"), 1, 50)}
  \cup {f \in {"country"} :
          Has(body, "country") /\ ~IsLength(Str(body, "country"), 1, 50)}
  \cup {f \in {"gender"} : Has(body, "gender") /\ body.gender \notin Genders}
  \cup {f \in {"birthdate"} : ~(Has(body, "birthdate") /\ body.birthdate # <<>>)}

SanitizeAuthor(body) ==
  [f \in DOMAIN body |->
     IF f \in {"fullname", "country"} THEN Trim(body[f]) ELSE body[f]]

\* validateRequest: a non-empty error list ends the request with 400
ValidationFailed(errors) == errors # {}

----------------------------------------------------------------------------
(* The persistence service.  A collection is a function from the stored    *)
(* identifiers to the stored documents.                                    *)

WithId(body, id) ==
  [f \in DOMAIN body \cup {"_id"} |-> IF f = "_id" THEN id ELSE body[f]]

\* $set semantics of findByIdAndUpdate: supplied fields overwrite
Merge(doc, body) ==
  [f \in DOMAIN doc \cup DOMAIN body |-> IF Has(body, f) THEN body[f] ELSE doc[f]]

Insert(coll, id, body) ==
  [i \in DOMAIN coll \cup {id} |-> IF i = id THEN WithId(body, id) ELSE coll[i]]

Remove(coll, id) == [i \in DOMAIN coll \ {id} |-> coll[i]]

\* the unique index of a collection on `key`: a write that would leave two
\* documents with the same value is rejected (error code 11000)
NoUniqueIndex(coll, key, value, id) == FALSE
DuplicateKey(coll, key, value, id) ==
  \E i \in DOMAIN coll \ {id} : coll[i][key] = value

\* findOne({key: value})
FindOneNothing(coll, key, value) == {}
FindOne(coll, key, value) == {i \in DOMAIN coll : coll[i][key] = value}

\* findOne({key: value, _id: {$ne: id}})
FindOneAnyId(coll, key, value, id) == {i \in DOMAIN coll : coll[i][key] = value}
FindOneOther(coll, key, value, id) ==
  {i \in DOMAIN coll : coll[i][key] = value /\ i # id}

\* the catch blocks: error.code === 11000 ? 409 : 500
ErrorStatusAlways500(code) == 500
ErrorStatus(code) == IF code = 11000 THEN 409 ELSE 500

----------------------------------------------------------------------------
(* Requests.                                                               *)

Isbn10 == [i \in 1..10 |-> "1"]
Isbn13 == [i \in 1..13 |-> "9"]

BookBody(isbn) ==
  [title |-> <<"D">>, author |-> <<"H">>, isbn |-> isbn, genre |-> "Fantasy",
   publicationYear |-> 1965, pages |-> 412]

BookPostBodies ==
  {BookBody(Isbn10), BookBody(Isbn13), BookBody(<<" ">> \o Isbn10),
   [BookBody(Isbn10) EXCEPT !.pages = 0],
   [title |-> <<"D">>, isbn |-> Isbn13]}

BookPutBodies ==
  {<<>>, [isbn |-> Isbn13 \o <<" ">>], [genre |-> "Mystery"],
   [isbn |-> <<"1", "2">>]}

Jane == <<"J">>
Kate == <<"K">>
Born == <<"1", "9", "9", "0">>
Born2 == <<"2", "0", "0", "0">>

AuthorBody(fullname) ==
  [fullname |-> fullname, country |-> <<"U", "K">>, gender |-> "Female",
   birthdate |-> Born]

AuthorPostBodies ==
  {AuthorBody(Jane), AuthorBody(Kate), AuthorBody(<<" ">> \o Jane),
   [AuthorBody(Jane) EXCEPT !.gender = "X"],
   [fullname |-> Jane, country |-> <<"U", "K">>, gender |-> "Male"]}

AuthorPutBodies ==
  {<<>>, [fullname |-> Jane],
   [birthdate |-> Born2],
   [fullname |-> Kate \o <<" ">>, birthdate |-> Born],
   [country |-> <<" ">>, birthdate |-> Born]}

Malformed == {<<"1", "2", "3">>, [i \in 1..24 |-> "z"]}

PathIds == {ObjectId(n) : n \in 1..MaxId} \cup Malformed

----------------------------------------------------------------------------
(* State.                                                                  *)
(*   router   the router the behaviour exercises                           *)
(*   books, authors  the collections                                       *)
(*   nextId   ordinal of the next identifier to be generated               *)
(*   pending  requests suspended between pre-check and write               *)
(*   res      what the handler step that has just run did: the handler     *)
(*            (op), the status it responded (0: none, it is suspended),    *)
(*            the persistence call it issued and the record in the         *)
(*            response body; "none" once control is back in the event loop *)
(*   deleted  identifiers a Delete has succeeded on            (history)   *)
(*   created  identifier -> payload as submitted, for the records not      *)
(*            written since their creation                     (history)   *)

Response(op, status, call, data) ==
  [op |-> op, status |-> status, call |-> call, data |-> data]

Suspended(kind, id, raw, body) ==
  [kind |-> kind, id |-> id, raw |-> raw, body |-> body]

NoResponse == Response("none", 0, "none", {})

\* the event loop runs one handler step at a time
Idle == res = NoResponse

Forget(id) == [i \in DOMAIN created \ {id} |-> created[i]]

Init ==
  /\ router \in {"books", "authors"}
  /\ books = <<>>
  /\ authors = <<>>
  /\ nextId = 1
  /\ pending = EmptyBag
  /\ res = NoResponse
  /\ deleted = {}
  /\ created = <<>>


----------------------------------------------------------------------------
(* routes/booksRoute                                                       *)

\* GET /books/:id
BookGet(id) ==
  /\ router = "books"
  /\ Idle
  /\ res' = IF ValidationFailed(IdErrors(id))
              THEN Response("GET", 400, "none", {})
            ELSE IF id \notin DOMAIN books
              THEN Response("GET", 404, "findById", {})
            ELSE Response("GET", 200, "findById", {books[id]})
  /\ UNCHANGED <<router, books, authors, nextId, pending, deleted, created>>

\* POST /books, up to the await of findOne's result
BookCreateCheck(raw) ==
  /\ router = "books"
  /\ Idle
  /\ LET body == SanitizeBook(raw) IN
     IF ValidationFailed(BookCreateErrors(raw))
       THEN /\ res' = Response("POST", 400, "none", {})
            /\ UNCHANGED pending
     ELSE IF FindOne(books, "isbn", body.isbn) # {}
       THEN /\ res' = Response("POST", 409, "findOne", {})
            /\ UNCHANGED pending
     ELSE /\ BagCardinality(pending) < MaxPending
          /\ pending' = pending (+) SetToBag({Suspended("create", <<>>, raw, body)})
          /\ res' = Response("POST", 0, "findOne", {})
  /\ UNCHANGED <<router, books, authors, nextId, deleted, created>>

\* POST /books, from new Book(req.body) on
BookCreateSave(e) ==
  /\ router = "books"
  /\ Idle
  /\ e.kind = "create"
  /\ nextId <= MaxId
  /\ LET id == ObjectId(nextId) IN
     IF DuplicateKey(books, "isbn", e.body.isbn, id)
       THEN /\ res' = Response("POST", ErrorStatus(11000), "save", {})
            /\ UNCHANGED <<books, created>>
     ELSE /\ books' = Insert(books, id, e.body)
          /\ res' = Response("POST", 201, "save", {WithId(e.body, id)})
          /\ created' = (id :> e.raw) @@ created
  /\ nextId' = nextId + 1
  /\ pending' = pending (-) SetToBag({e})
  /\ UNCHANGED <<router, authors, deleted>>

\* PUT /books/:id: findByIdAndUpdate, the found-check and the catch block
BookUpdateUpsert(id, body) ==
  IF id \notin DOMAIN books
    THEN /\ books' = Insert(books, id, body)
         /\ res' = Response("PUT", 200, "findByIdAndUpdate", {WithId(body, id)})
         /\ created' = Forget(id)
  ELSE IF Has(body, "isbn") /\ DuplicateKey(books, "isbn", body.isbn, id)
    THEN /\ res' = Response("PUT", ErrorStatus(11000), "findByIdAndUpdate", {})
         /\ UNCHANGED <<books, created>>
  ELSE /\ books' = [books EXCEPT ![id] = Merge(@, body)]
       /\ res' = Response("PUT", 200, "findByIdAndUpdate", {Merge(books[id], body)})
       /\ created' = Forget(id)

BookUpdateApply(id, body) ==
  IF id \notin DOMAIN books
    THEN /\ res' = Response("PUT", 404, "findByIdAndUpdate", {})
         /\ UNCHANGED <<books, created>>
  ELSE IF Has(body, "isbn") /\ DuplicateKey(books, "isbn", body.isbn, id)
    THEN /\ res' = Response("PUT", ErrorStatus(11000), "findByIdAndUpdate", {})
         /\ UNCHANGED <<books, created>>
  ELSE /\ books' = [books EXCEPT ![id] = Merge(@, body)]
       /\ res' = Response("PUT", 200, "findByIdAndUpdate", {Merge(books[id], body)})
       /\ created' = Forget(id)

\* PUT /books/:id, up to its first await: with an isbn in the payload that
\* is the duplicate pre-check, without one it is findByIdAndUpdate itself
BookUpdate(id, raw) ==
  /\ router = "books"
  /\ Idle
  /\ LET body == SanitizeBook(raw) IN
     IF ValidationFailed(IdErrors(id) \cup BookUpdateErrors(raw))
       THEN /\ res' = Response("PUT", 400, "none", {})
            /\ UNCHANGED <<books, created, pending>>
     ELSE IF Has(body, "isbn") /\ body.isbn # <<>>
       THEN IF FindOneOther(books, "isbn", body.isbn, id) # {}
              THEN /\ res' = Response("PUT", 409, "findOne", {})
                   /\ UNCHANGED <<books, created, pending>>
            ELSE /\ BagCardinality(pending) < MaxPending
                 /\ pending' =
                      pending (+) SetToBag({Suspended("update", id, body, body)})
                 /\ res' = Response("PUT", 0, "findOne", {})
                 /\ UNCHANGED <<books, created>>
     ELSE /\ BookUpdateApply(id, body)
          /\ UNCHANGED pending
  /\ UNCHANGED <<router, authors, nextId, deleted>>

\* PUT /books/:id, resumed after the duplicate pre-check
BookUpdateWrite(e) ==
  /\ router = "books"
  /\ Idle
  /\ e.kind = "update"
  /\ BookUpdateApply(e.id, e.body)
  /\ pending' = pending (-) SetToBag({e})
  /\ UNCHANGED <<router, authors, nextId, deleted>>

\* DELETE /books/:id
BookDeleteKeepsRecord(id) ==
  /\ router = "books"
  /\ Idle
  /\ IF ValidationFailed(IdErrors(id))
       THEN /\ res' = Response("DELETE", 400, "none", {})
            /\ UNCHANGED <<deleted, created>>
     ELSE IF id \notin DOMAIN books
       THEN /\ res' = Response("DELETE", 404, "findByIdAndDelete", {})
            /\ UNCHANGED <<deleted, created>>
     ELSE /\ res' = Response("DELETE", 200, "findById", {})
          /\ deleted' = deleted \cup {id}
          /\ created' = Forget(id)
  /\ UNCHANGED <<router, books, authors, nextId, pending>>

BookDelete(id) ==
  /\ router = "books"
  /\ Idle
  /\ IF ValidationFailed(IdErrors(id))
       THEN /\ res' = Response("DELETE", 400, "none", {})
            /\ UNCHANGED <<books, deleted, created>>
     ELSE IF id \notin DOMAIN books
       THEN /\ res' = Response("DELETE", 404, "findByIdAndDelete", {})
            /\ UNCHANGED <<books, deleted, created>>
     ELSE /\ books' = Remove(books, id)
          /\ res' = Response("DELETE", 200, "findByIdAndDelete", {})
          /\ deleted' = deleted \cup {id}
          /\ created' = Forget(id)
  /\ UNCHANGED <<router, authors, nextId, pending>>

----------------------------------------------------------------------------
(* routes/authorsRoute                                                     *)

\* GET /authors/:id
AuthorGet(id) ==
  /\ router = "authors"
  /\ Idle
  /\ res' = IF ValidationFailed(IdErrors(id))
              THEN Response("GET", 400, "none", {})
            ELSE IF id \notin DOMAIN authors
              THEN Response("GET", 404, "findById", {})
            ELSE Response("GET", 200, "findById", {authors[id]})
  /\ UNCHANGED <<router, books, authors, nextId, pending, deleted, created>>

\* POST /authors, up to the await of findOne's result
AuthorCreateCheck(raw) ==
  /\ router = "authors"
  /\ Idle
  /\ LET body == SanitizeAuthor(raw) IN
     IF ValidationFailed(AuthorCreateErrors(raw))
       THEN /\ res' = Response("POST", 400, "none", {})
            /\ UNCHANGED pending
     ELSE IF FindOne(authors, "fullname", body.fullname) # {}
       THEN /\ res' = Response("POST", 409, "findOne", {})
            /\ UNCHANGED pending
     ELSE /\ BagCardinality(pending) < MaxPending
          /\ pending' = pending (+) SetToBag({Suspended("create", <<>>, raw, body)})
          /\ res' = Response("POST", 0, "findOne", {})
  /\ UNCHANGED <<router, books, authors, nextId, deleted, created>>

\* POST /authors, from new Author(req.body) on
AuthorCreateSave(e) ==
  /\ router = "authors"
  /\ Idle
  /\ e.kind = "create"
  /\ nextId <= MaxId
  /\ LET id == ObjectId(nextId) IN
     IF DuplicateKey(authors, "fullname", e.body.fullname, id)
       THEN /\ res' = Response("POST", ErrorStatus(11000), "save", {})
            /\ UNCHANGED <<authors, created>>
     ELSE /\ authors' = Insert(authors, id, e.body)
          /\ res' = Response("POST", 201, "save", {WithId(e.body, id)})
          /\ created' = (id :> e.raw) @@ created
  /\ nextId' = nextId + 1
  /\ pending' = pending (-) SetToBag({e})
  /\ UNCHANGED <<router, books, deleted>>

\* PUT /authors/:id: findByIdAndUpdate, the found-check and the catch block
AuthorUpdateApply(id, body) ==
  IF id \notin DOMAIN authors
    THEN /\ res' = Response("PUT", 404, "findByIdAndUpdate", {})
         /\ UNCHANGED <<authors, created>>
  ELSE IF Has(body, "fullname") /\ DuplicateKey(authors, "fullname", body.fullname, id)
    THEN /\ res' = Response("PUT", ErrorStatus(11000), "findByIdAndUpdate", {})
         /\ UNCHANGED <<authors, created>>
  ELSE /\ authors' = [authors EXCEPT ![id] = Merge(@, body)]
       /\ res' = Response("PUT", 200, "findByIdAndUpdate", {Merge(authors[id], body)})
       /\ created' = Forget(id)

\* PUT /authors/:id, up to its first await: with a fullname in the payload that
\* is the duplicate pre-check, without one it is findByIdAndUpdate itself
AuthorUpdate(id, raw) ==
  /\ router = "authors"
  /\ Idle
  /\ LET body == SanitizeAuthor(raw) IN
     IF ValidationFailed(IdErrors(id) \cup AuthorUpdateErrors(raw))
       THEN /\ res' = Response("PUT", 400, "none", {})
            /\ UNCHANGED <<authors, created, pending>>
     ELSE IF Has(body, "fullname") /\ body.fullname # <<>>
       THEN IF FindOneOther(authors, "fullname", body.fullname, id) # {}
              THEN /\ res' = Response("PUT", 409, "findOne", {})
                   /\ UNCHANGED <<authors, created, pending>>
            ELSE /\ BagCardinality(pending) < MaxPending
                 /\ pending' =
                      pending (+) SetToBag({Suspended("update", id, body, body)})
                 /\ res' = Response("PUT", 0, "findOne", {})
                 /\ UNCHANGED <<authors, created>>
     ELSE /\ AuthorUpdateApply(id, body)
          /\ UNCHANGED pending
  /\ UNCHANGED <<router, books, nextId, deleted>>

\* PUT /authors/:id, resumed after the duplicate pre-check
AuthorUpdateWrite(e) ==
  /\ router = "authors"
  /\ Idle
  /\ e.kind = "update"
  /\ AuthorUpdateApply(e.id, e.body)
  /\ pending' = pending (-) SetToBag({e})
  /\ UNCHANGED <<router, books, nextId, deleted>>

\* DELETE /authors/:id
AuthorDelete(id) ==
  /\ router = "authors"
  /\ Idle
  /\ IF ValidationFailed(IdErrors(id))
       THEN /\ res' = Response("DELETE", 400, "none", {})
            /\ UNCHANGED <<authors, deleted, created>>
     ELSE IF id \notin DOMAIN authors
       THEN /\ res' = Response("DELETE", 404, "findByIdAndDelete", {})
            /\ UNCHANGED <<authors, deleted, created>>
     ELSE /\ authors' = Remove(authors, id)
          /\ res' = Response("DELETE", 200, "findByIdAndDelete", {})
          /\ deleted' = deleted \cup {id}
          /\ created' = Forget(id)
  /\ UNCHANGED <<router, books, nextId, pending>>

----------------------------------------------------------------------------

\* the handler step has returned and control is back in the event loop
Yield ==
  /\ ~Idle
  /\ res' = NoResponse
  /\ UNCHANGED <<router, books, authors, nextId, pending, deleted, created>>

Next ==
  \/ \E id \in PathIds : BookGet(id)
  \/ \E raw \in BookPostBodies : BookCreateCheck(raw)
  \/ \E e \in BagToSet(pending) : BookCreateSave(e)
  \/ \E id \in PathIds, raw \in BookPutBodies : BookUpdate(id, raw)
  \/ \E e \in BagToSet(pending) : BookUpdateWrite(e)
  \/ \E id \in PathIds : BookDelete(id)
  \/ \E id \in PathIds : AuthorGet(id)
  \/ \E raw \in AuthorPostBodies : AuthorCreateCheck(raw)
  \/ \E e \in BagToSet(pending) : AuthorCreateSave(e)
  \/ \E id \in PathIds, raw \in AuthorPutBodies : AuthorUpdate(id, raw)
  \/ \E e \in BagToSet(pending) : AuthorUpdateWrite(e)
  \/ \E id \in PathIds : AuthorDelete(id)
  \/ Yield

Spec == Init /\ [][Next]_vars


----------------------------------------------------------------------------
(* Properties.                                                             *)

WellFormedIds == PathIds \ Malformed

Holders(coll, key, value) == {i \in DOMAIN coll : coll[i][key] = value}

\* every supplied Book field obeys its rule of the data model
BookFieldsValid(raw) ==
  /\ Has(raw, "title") => IsLength(Trim(raw.title), 1, 200)
  /\ Has(raw, "author") => IsLength(Trim(raw.author), 1, 100)
  /\ Has(raw, "isbn") => IsbnMatches(Trim(raw.isbn))
  /\ Has(raw, "genre") => raw.genre \in Genres
  /\ Has(raw, "publicationYear") => IsInt(raw.publicationYear, 1000, CurrentYear)
  /\ Has(raw, "pages") => IsInt(raw.pages, 1, 10000)
  /\ Has(raw, "description") => IsLength(Trim(raw.description), 0, 1000)
  /\ Has(raw, "available") => IsBoolean(raw.available)

\* every supplied Author field obeys its rule of the data model
AuthorFieldsValid(raw) ==
  /\ Has(raw, "fullname") => IsLength(Trim(raw.fullname), 1, 50)
  /\ Has(raw, "country") => IsLength(Trim(raw.country), 1, 50)
  /\ Has(raw, "gender") => raw.gender \in Genders
  /\ Has(raw, "birthdate") => raw.birthdate # <<>>

BookRequired == {"title", "author", "isbn", "genre", "publicationYear", "pages"}
AuthorRequired == {"fullname", "country", "gender", "birthdate"}

ValidBookPayload(raw) == BookRequired \subseteq DOMAIN raw /\ BookFieldsValid(raw)
ValidAuthorPayload(raw) ==
  AuthorRequired \subseteq DOMAIN raw /\ AuthorFieldsValid(raw)

\* the payload with leading and trailing whitespace removed from `fields`
Trimmed(raw, fields) ==
  [f \in DOMAIN raw |-> IF f \in fields THEN Trim(raw[f]) ELSE raw[f]]

BookTrimmed(raw) == Trimmed(raw, {"title", "author", "isbn", "description"})
AuthorTrimmed(raw) == Trimmed(raw, {"fullname", "country"})

\* the payloads of the requests above that are valid Create payloads
ValidBookPosts == {raw \in BookPostBodies : ValidBookPayload(raw)}
ValidAuthorPosts == {raw \in AuthorPostBodies : ValidAuthorPayload(raw)}

\* the payloads of the requests above that pass the validation of Update
PassingBookPuts == {raw \in BookPutBodies : BookUpdateErrors(raw) = {}}
PassingAuthorPuts == {raw \in AuthorPutBodies : AuthorUpdateErrors(raw) = {}}

NoWrite == books' = books /\ authors' = authors /\ pending' = pending

\* C1: in every reachable state no two Book records have the same isbn and
\* no two Author records have the same fullname.
C1_Unique ==
  /\ \A i, j \in DOMAIN books : i # j => books[i].isbn # books[j].isbn
  /\ \A i, j \in DOMAIN authors : i # j => authors[i].fullname # authors[j].fullname

\* the unique index has just rejected the write of a request whose pre-check
\* had passed, with two records stored
C1_Witness ==
  /\ res.status = 409
  /\ res.call \in {"save", "findByIdAndUpdate"}
  /\ Cardinality(DOMAIN books) = 2 \/ Cardinality(DOMAIN authors) = 2

\* C2: a valid Create payload whose isbn (fullname) is held by a stored
\* record is answered 409 and nothing is written, then or later.
C2_CreateDuplicate ==
  [][/\ \A raw \in ValidBookPosts :
          Holders(books, "isbn", Trim(raw.isbn)) # {} /\ BookCreateCheck(raw)
          => res'.status = 409 /\ NoWrite
     /\ \A raw \in ValidAuthorPosts :
          (/\ Holders(authors, "fullname", Trim(raw.fullname)) # {}
           /\ AuthorCreateCheck(raw))
          => res'.status = 409 /\ NoWrite]_vars

\* a Create pre-check has just answered 409 with a record stored and no
\* request suspended
C2_Witness ==
  /\ res = Response("POST", 409, "findOne", {})
  /\ pending = EmptyBag
  /\ DOMAIN books # {} \/ DOMAIN authors # {}

\* C3: when the write of a Create whose pre-check had passed finds the value
\* stored by now, the insert is rejected and answered 409 (not 500) and the
\* collection is unchanged; otherwise it is answered 201 and exactly one
\* record with the value is stored.
C3_CreateRace ==
  [][/\ \A e \in BagToSet(pending) :
          BookCreateSave(e) =>
            IF Holders(books, "isbn", e.body.isbn) # {}
              THEN res'.status = 409 /\ books' = books
              ELSE /\ res'.status = 201
                   /\ Cardinality(Holders(books', "isbn", e.body.isbn)) = 1
     /\ \A e \in BagToSet(pending) :
          AuthorCreateSave(e) =>
            IF Holders(authors, "fullname", e.body.fullname) # {}
              THEN res'.status = 409 /\ authors' = authors
              ELSE /\ res'.status = 201
                   /\ Cardinality(Holders(authors', "fullname", e.body.fullname)) = 1
    ]_vars

\* the second insert of a race has just been rejected
C3_Witness ==
  /\ res.op = "POST"
  /\ res.call = "save"
  /\ res.status = 409
  /\ Cardinality(DOMAIN books) + Cardinality(DOMAIN authors) = 1

\* C4: PUT /authors/:id {fullname: N}, N held by another author, is answered
\* 409 and the collection is unchanged.
C4_UpdateDuplicateName ==
  [][\A id \in DOMAIN authors :
       (/\ Holders(authors, "fullname", Jane) \ {id} # {}
        /\ AuthorUpdate(id, [fullname |-> Jane]))
       => res'.status = 409 /\ authors' = authors]_vars


\* the update leaves every field the payload does not supply, the identifier
\* and every other record as they were, and sets the supplied fields
PartialUpdate(coll, coll2, id, body) ==
  /\ DOMAIN coll2 = DOMAIN coll
  /\ \A i \in DOMAIN coll \ {id} : coll2[i] = coll[i]
  /\ coll2[id]._id = id
  /\ \A f \in DOMAIN coll[id] \ DOMAIN body : coll2[id][f] = coll[id][f]
  /\ \A f \in DOMAIN body : coll2[id][f] = body[f]
  /\ DOMAIN coll2[id] = DOMAIN coll[id] \cup DOMAIN body

\* a successful Update changes exactly the supplied fields of the addressed
\* record
UpdateFrame ==
  [][/\ \A id \in DOMAIN books, raw \in BookPutBodies :
          BookUpdate(id, raw) /\ res'.status = 200
          => PartialUpdate(books, books', id, BookTrimmed(raw))
     /\ \A e \in BagToSet(pending) :
          BookUpdateWrite(e) /\ res'.status = 200
          => PartialUpdate(books, books', e.id, e.body)
     /\ \A id \in DOMAIN authors, raw \in AuthorPutBodies :
          AuthorUpdate(id, raw) /\ res'.status = 200
          => PartialUpdate(authors, authors', id, AuthorTrimmed(raw))
     /\ \A e \in BagToSet(pending) :
          AuthorUpdateWrite(e) /\ res'.status = 200
          => PartialUpdate(authors, authors', e.id, e.body)]_vars

\* an Update has just changed a field of one of two stored records
UpdateFrame_Witness ==
  /\ res.op = "PUT"
  /\ res.status = 200
  /\ Cardinality(DOMAIN books) = 2 \/ Cardinality(DOMAIN authors) = 2
  /\ \E d \in res.data :
       \/ Has(d, "genre") /\ d.genre = "Mystery"
       \/ Has(d, "birthdate") /\ d.birthdate = Born2

\* C5: for both resources an Update with a subset of the fields, the empty
\* subset included, is accepted and changes exactly the supplied fields of
\* the addressed record; the empty payload leaves the record as it was.
C5_PartialUpdate ==
  [][/\ \A id \in DOMAIN books, raw \in BookPutBodies :
          BookUpdate(id, raw) /\ res'.status = 200
          => PartialUpdate(books, books', id, BookTrimmed(raw))
     /\ \A e \in BagToSet(pending) :
          BookUpdateWrite(e) /\ res'.status = 200
          => PartialUpdate(books, books', e.id, e.body)
     /\ \A id \in DOMAIN authors, raw \in AuthorPutBodies :
          AuthorUpdate(id, raw) /\ res'.status = 200
          => PartialUpdate(authors, authors', id, AuthorTrimmed(raw))
     /\ \A e \in BagToSet(pending) :
          AuthorUpdateWrite(e) /\ res'.status = 200
          => PartialUpdate(authors, authors', e.id, e.body)
     /\ \A id \in DOMAIN books :
          BookUpdate(id, <<>>) => res'.status = 200 /\ books' = books
     /\ \A id \in DOMAIN authors :
          AuthorUpdate(id, <<>>) => res'.status = 200 /\ authors' = authors]_vars

\* C6: Delete of an absent well-formed id answers 404 and changes nothing;
\* an id that a Delete has succeeded on is stored in no later state, and
\* every Get-by-id of it answers 404.
C6_DeleteGet ==
  [][/\ \A id \in WellFormedIds \ DOMAIN books :
          BookDelete(id) => res'.status = 404 /\ NoWrite
     /\ \A id \in WellFormedIds \ DOMAIN authors :
          AuthorDelete(id) => res'.status = 404 /\ NoWrite
     /\ \A id \in deleted : BookGet(id) \/ AuthorGet(id) => res'.status = 404
     /\ deleted' \cap (DOMAIN books' \cup DOMAIN authors') = {}]_vars

\* a Get-by-id has just answered 404 with an id deleted, another record
\* created since and no identifier left unused
C6_Witness ==
  /\ deleted # {}
  /\ res = Response("GET", 404, "findById", {})
  /\ DOMAIN books \cup DOMAIN authors # {}
  /\ nextId > MaxId

\* C7 as stated: Get-by-id of a record not written since its creation
\* returns the payload as submitted plus the generated id.
C7_RoundTripAsSubmitted ==
  [][\A id \in DOMAIN created :
       /\ BookGet(id) => res'.status = 200 /\ res'.data = {WithId(created[id], id)}
       /\ AuthorGet(id) => res'.status = 200 /\ res'.data = {WithId(created[id], id)}
    ]_vars

\* C7 amended: Get-by-id of a record not written since its creation returns
\* the submitted payload with leading and trailing whitespace removed from
\* title, author, isbn and description (fullname and country for Authors),
\* plus the generated id.
C7_RoundTripTrimmed ==
  [][\A id \in DOMAIN created :
       /\ BookGet(id) =>
            res'.status = 200 /\ res'.data = {WithId(BookTrimmed(created[id]), id)}
       /\ AuthorGet(id) =>
            res'.status = 200 /\ res'.data = {WithId(AuthorTrimmed(created[id]), id)}
    ]_vars

\* a Get-by-id has just returned a record that was submitted with padding
C7_Witness ==
  /\ res.op = "GET"
  /\ res.status = 200
  /\ \E id \in DOMAIN created :
       /\ res.data \in {{WithId(BookTrimmed(created[id]), id)},
                        {WithId(AuthorTrimmed(created[id]), id)}}
       /\ res.data # {WithId(created[id], id)}

\* C8: a by-id operation on a malformed identifier answers 400 and issues no
\* persistence call; nothing is written or left to be written.
C8_MalformedId ==
  [][\A id \in Malformed :
       /\ BookGet(id) \/ BookDelete(id) \/ AuthorGet(id) \/ AuthorDelete(id)
          => res'.status = 400 /\ res'.call = "none" /\ NoWrite
       /\ \A raw \in BookPutBodies :
            BookUpdate(id, raw)
            => res'.status = 400 /\ res'.call = "none" /\ NoWrite
       /\ \A raw \in AuthorPutBodies :
            AuthorUpdate(id, raw)
            => res'.status = 400 /\ res'.call = "none" /\ NoWrite]_vars

\* a Delete, whose only validation is that of the id, has just answered 400
\* with a record stored
C8_Witness ==
  /\ res = Response("DELETE", 400, "none", {})
  /\ DOMAIN books \cup DOMAIN authors # {}

\* C9 as stated: an Update of an absent well-formed id with a payload that
\* passes validation never answers anything but 404, and writes nothing.
C9_UpdateAbsentIs404 ==
  [][/\ \A id \in WellFormedIds \ DOMAIN books, raw \in PassingBookPuts :
          BookUpdate(id, raw)
          => res'.status \in {0, 404} /\ books' = books
     /\ \A id \in WellFormedIds \ DOMAIN authors, raw \in PassingAuthorPuts :
          AuthorUpdate(id, raw)
          => res'.status \in {0, 404} /\ authors' = authors
     /\ \A e \in BagToSet(pending) :
          /\ e.id \notin DOMAIN books /\ BookUpdateWrite(e)
             => res'.status = 404 /\ books' = books
          /\ e.id \notin DOMAIN authors /\ AuthorUpdateWrite(e)
             => res'.status = 404 /\ authors' = authors]_vars

\* C9 amended: an Update of an absent well-formed id with a payload that
\* passes validation writes nothing and answers 404, unless the payload's
\* isbn (fullname) is held by a stored record: then the duplicate check
\* answers 409 before the record is looked up.
C9_UpdateAbsent ==
  [][/\ \A id \in WellFormedIds \ DOMAIN books, raw \in PassingBookPuts :
          BookUpdate(id, raw)
          => /\ books' = books
             /\ res'.status =
                  IF ~Has(raw, "isbn") THEN 404
                  ELSE IF Holders(books, "isbn", Trim(raw.isbn)) # {} THEN 409
                  ELSE 0
     /\ \A id \in WellFormedIds \ DOMAIN authors, raw \in PassingAuthorPuts :
          AuthorUpdate(id, raw)
          => /\ authors' = authors
             /\ res'.status =
                  IF ~Has(raw, "fullname") THEN 404
                  ELSE IF Holders(authors, "fullname", Trim(raw.fullname)) # {}
                    THEN 409
                  ELSE 0
     /\ \A e \in BagToSet(pending) :
          /\ e.id \notin DOMAIN books /\ BookUpdateWrite(e)
             => res'.status = 404 /\ books' = books
          /\ e.id \notin DOMAIN authors /\ AuthorUpdateWrite(e)
             => res'.status = 404 /\ authors' = authors]_vars

\* an Update has just answered 404 with a record stored
C9_Witness ==
  /\ res = Response("PUT", 404, "findByIdAndUpdate", {})
  /\ DOMAIN books \cup DOMAIN authors # {}

\* C10: an Update whose payload carries the addressed record's own isbn
\* (fullname) passes the duplicate check and is answered 200; a payload
\* carrying a value held by another record is answered 409.
C10_OwnValue ==
  [][/\ \A id \in DOMAIN books, raw \in PassingBookPuts :
          Has(raw, "isbn") =>
            /\ Holders(books, "isbn", Trim(raw.isbn)) = {id} /\ BookUpdate(id, raw)
               => res'.status = 0 /\ pending' # pending
            /\ Holders(books, "isbn", Trim(raw.isbn)) \ {id} # {}
               /\ BookUpdate(id, raw)
               => res'.status = 409 /\ NoWrite
     /\ \A id \in DOMAIN authors, raw \in PassingAuthorPuts :
          Has(raw, "fullname") =>
            /\ Holders(authors, "fullname", Trim(raw.fullname)) = {id}
               /\ AuthorUpdate(id, raw)
               => res'.status = 0 /\ pending' # pending
            /\ Holders(authors, "fullname", Trim(raw.fullname)) \ {id} # {}
               /\ AuthorUpdate(id, raw)
               => res'.status = 409 /\ NoWrite
     /\ \A e \in BagToSet(pending) :
          /\ (/\ e.id \in DOMAIN books
              /\ Has(e.body, "isbn")
              /\ Holders(books, "isbn", e.body.isbn) = {e.id}
              /\ BookUpdateWrite(e))
             => res'.status = 200
          /\ (/\ e.id \in DOMAIN authors
              /\ Has(e.body, "fullname")
              /\ Holders(authors, "fullname", e.body.fullname) = {e.id}
              /\ AuthorUpdateWrite(e))
             => res'.status = 200]_vars

\* an Update carrying the addressed record's own value has just passed the
\* duplicate check, with another record stored
C10_Witness ==
  /\ res = Response("PUT", 0, "findOne", {})
  /\ BagCardinality(pending) = 1
  /\ \E e \in BagToSet(pending) :
       \/ /\ e.id \in DOMAIN books
          /\ Cardinality(DOMAIN books) = 2
          /\ books[e.id].isbn = e.body.isbn
       \/ /\ e.id \in DOMAIN authors
          /\ Cardinality(DOMAIN authors) = 2
          /\ authors[e.id].fullname = e.body.fullname

=============================================================================
